---- MODULE Spec2Model ----
(***************************************************************************)
(* Model of megablocks/layers/moe.py: the MoE layer's token routing, the   *)
(* single-device path (forward_once), the expert-model-parallel path       *)
(* (parallel_forward_once), the top-k combine of MoE.forward, the          *)
(* process-wide load-balancing accumulator, forward calls on every device  *)
(* of a data-parallel group, and the construction of the module.           *)
(*                                                                         *)
(* Conventions.  Rows and positions are 1-based here (TLA+ sequences) and  *)
(* 0-based in the code; expert ids keep the code's 0-based values, and a   *)
(* per-expert vector v of the code is the sequence with v[e] at e + 1.     *)
(* A token row is one integer (hidden size 1); the all-zero row is 0.      *)
(***************************************************************************)
EXTENDS Integers, Sequences, FiniteSets, TLC

\* ------------------------------------------------------------------------
\* Configuration (megatron args) and the bounds of the model
\* ------------------------------------------------------------------------

\* mpu.get_data_parallel_world_size()
WorldSize == 2

\* num_experts // world_size under expert model parallelism
ExpertsPerRank == 2

\* args.moe_num_experts
NumExperts == WorldSize * ExpertsPerRank

\* Largest number of token rows (seq_length * micro_batch_size) of a batch
\* on the single-device path.
MaxTokens == 4

\* Largest number of token rows of one device's batch on the parallel path.
MaxParTokens == 2

\* Largest configured expert_capacity on the single-device path; 0 is the
\* dynamic setting.
MaxCap == 2

\* Largest configured expert_capacity on the parallel path.
MaxParCap == 1

\* args.moe_top_k when it is not 1
TopK == 2

\* Largest number of token rows of a batch given to MoE.forward, and the
\* largest configured expert_capacity there.
MaxFwdTokens == 2

MaxFwdCap == 1

\* Largest number of MoE.forward calls of one run of the process.
MaxCalls == 3

\* Largest args.moe_num_experts and largest data-parallel world size a
\* module is constructed with.
MaxArgExperts == 6

MaxArgWorld == 3

\* Largest number of get_load_balancing_loss calls of one run.
MaxGets == 2

\* Largest number of MoE.forward calls one device of the group makes.
MaxGroupCalls == 2

Devices == 1..WorldSize

ExpertIds == 0..(NumExperts - 1)

\* ------------------------------------------------------------------------
\* Small helpers
\* ------------------------------------------------------------------------

RECURSIVE SumSeq(_)
SumSeq(s) == IF s = <<>> THEN 0 ELSE Head(s) + SumSeq(Tail(s))

RECURSIVE MaxSeq(_)
MaxSeq(s) ==
  IF Len(s) = 1 THEN s[1]
  ELSE LET m == MaxSeq(Tail(s)) IN IF Head(s) >= m THEN Head(s) ELSE m

RECURSIVE Pow2(_)
Pow2(n) == IF n = 0 THEN 1 ELSE 2 * Pow2(n - 1)

RECURSIVE Flatten(_)
Flatten(ss) == IF ss = <<>> THEN <<>> ELSE Head(ss) \o Flatten(Tail(ss))

\* The record r with the fields of s added or replaced.
Merge(r, s) ==
  [f \in (DOMAIN r) \cup (DOMAIN s) |-> IF f \in DOMAIN s THEN s[f] ELSE r[f]]

\* All sequences over S of length n, and of length at most n.
SeqsOfLen(S, n) == [1..n -> S]

SeqsUpTo(S, n) == UNION {SeqsOfLen(S, k) : k \in 0..n}

\* ------------------------------------------------------------------------
\* megablocks.ops (kernels; their contracts are sections 4.2 to 4.4)
\* ------------------------------------------------------------------------

RECURSIVE SortFrom(_, _, _)
SortFrom(keys, b, radix) ==
  IF b >= radix THEN <<>>
  ELSE SelectSeq([i \in 1..Len(keys) |-> i], LAMBDA i : keys[i] % radix = b)
         \o SortFrom(keys, b + 1, radix)

\* ops.sort(x, end_bit): stable radix sort on the low end_bit bits; returns
\* the permutation (rows in sorted order).
SortIndices(keys, end_bit) == SortFrom(keys, 0, Pow2(end_bit))

\* ops.sort's first result: the keys in sorted order.
SortValues(keys, end_bit) ==
  LET ix == SortIndices(keys, end_bit) IN [p \in 1..Len(ix) |-> keys[ix[p]]]

\* ops.histogram(x, num_bins)
Histogram(keys, n) ==
  [e \in 1..n |-> Cardinality({i \in 1..Len(keys) : keys[i] = e - 1})]

\* ops.inclusive_cumsum(x, 0)
InclusiveCumsum(c) == [e \in 1..Len(c) |-> SumSeq(SubSeq(c, 1, e))]

\* Start of bin e (the code's bins[e - 1], 0 for the first bin).
BinStart(bins, e) == IF e = 1 THEN 0 ELSE bins[e - 1]

\* ops.binned_gather(x, indices, bins, capacity) -> [E][capacity] rows: the
\* first `capacity` rows of every bin, the unused slots zero.
BinnedGather(x, indices, bins, capacity) ==
  [e \in 1..Len(bins) |->
     [s \in 1..capacity |->
        IF BinStart(bins, e) + s <= bins[e]
        THEN x[indices[BinStart(bins, e) + s]]
        ELSE 0]]

\* ops.binned_scatter(y, indices, bins) -> [T] rows: every gathered row
\* back at its row index; rows that were not gathered stay zero.
BinnedScatter(y, indices, bins) ==
  [t \in 1..Len(indices) |->
     LET W == {es \in (1..Len(bins)) \X (1..(IF Len(y) = 0 THEN 0 ELSE Len(y[1]))) :
                 /\ BinStart(bins, es[1]) + es[2] <= bins[es[1]]
                 /\ indices[BinStart(bins, es[1]) + es[2]] = t}
     IN IF W = {} THEN 0
        ELSE LET es == CHOOSE w \in W : TRUE IN y[es[1]][es[2]]]

\* ops.padded_gather(x, indices, bin_ids, bins, padded_bins): the row at
\* sorted position p goes to padded_bins-start of its bin plus its offset
\* in the bin; all rows are kept.
PaddedGather(x, indices, bin_ids, bins, padded_bins) ==
  LET n == IF Len(padded_bins) = 0 THEN 0 ELSE padded_bins[Len(padded_bins)]
      Dst(p) == BinStart(padded_bins, bin_ids[p] + 1)
                  + (p - BinStart(bins, bin_ids[p] + 1))
  IN [r \in 1..n |->
        LET P == {p \in 1..Len(indices) : Dst(p) = r}
        IN IF P = {} THEN 0 ELSE x[indices[CHOOSE p \in P : TRUE]]]

\* ops.padded_scatter(x, indices, bin_ids, bins, padded_bins): its inverse.
PaddedScatter(x, indices, bin_ids, bins, padded_bins) ==
  LET Src(p) == BinStart(padded_bins, bin_ids[p] + 1)
                  + (p - BinStart(bins, bin_ids[p] + 1))
  IN [t \in 1..Len(indices) |->
        LET P == {p \in 1..Len(indices) : indices[p] = t}
        IN IF P = {} THEN 0
           ELSE LET p == CHOOSE q \in P : TRUE
                IN IF Src(p) \in 1..Len(x) THEN x[Src(p)] ELSE 0]

\* ops.replicate(x, bins, num_outputs): column i of x repeated over the
\* output positions of bin i.
Replicate(x, bins, num_outputs) ==
  [j \in 1..num_outputs |->
     LET I == {i \in 1..Len(bins) : BinStart(bins, i) < j /\ j <= bins[i]}
     IN IF I = {} THEN 0 ELSE x[CHOOSE i \in I : TRUE]]

\* ------------------------------------------------------------------------
\* Module construction (MoE.__init__, create_expert_weights)
\* ------------------------------------------------------------------------

RECURSIVE CeilLog2From(_, _)
CeilLog2From(n, b) == IF Pow2(b) >= n THEN b ELSE CeilLog2From(n, b + 1)

\* Mutant of SortEndBit: the sort looks at the lowest bit only.
SortEndBitOne(num_experts) == 1

\* self.sort_end_bit = max(int(np.ceil(np.log2(num_experts))), 1)
SortEndBit(num_experts) ==
  LET c == CeilLog2From(num_experts, 0) IN IF c >= 1 THEN c ELSE 1

\* The weight of an expert whose transform is the identity.
IdW == -1

\* master_weights: one weight per global expert; expert g's weight is g
\* itself, or IdW for every expert when the experts are the identity.
MasterWeights(idc) == [e \in 1..NumExperts |-> IF idc THEN IdW ELSE e - 1]

\* Mutant of CreateExpertWeights: the slice does not depend on the rank.
CreateExpertWeightsNoRank(master, emp, rank) ==
  IF ~emp THEN master ELSE SubSeq(master, 1, ExpertsPerRank)

\* create_expert_weights: the whole master matrix, or this rank's slice
\* [rank * num_experts_per_rank, (rank + 1) * num_experts_per_rank).
CreateExpertWeights(master, emp, rank) ==
  IF ~emp THEN master
  ELSE SubSeq(master, rank * ExpertsPerRank + 1, (rank + 1) * ExpertsPerRank)

\* The expert transform on one row: zero stays zero (no bias), any other
\* row becomes a value that names the expert and the row.
ExpertFn(w, v) ==
  IF w = IdW \/ v = 0 THEN v ELSE v * (NumExperts + 1) + w + 1

\* MoE.compute: a batched product, expert e's weights on expert e's rows.
Compute(w, xb) ==
  [e \in 1..Len(xb) |-> [s \in 1..Len(xb[e]) |-> ExpertFn(w[e], xb[e][s])]]

\* ------------------------------------------------------------------------
\* Single-device path
\* ------------------------------------------------------------------------

\* Mutant of IndicesAndBins: the bins are the exclusive cumulative sum.
IndicesAndBinsExclusive(top_expert, num_experts) ==
  LET tpe == Histogram(top_expert, num_experts)
  IN [indices |-> SortIndices(top_expert, SortEndBit(num_experts)),
      bin_ids |-> SortValues(top_expert, SortEndBit(num_experts)),
      bins |-> [e \in 1..Len(tpe) |-> SumSeq(SubSeq(tpe, 1, e - 1))],
      tokens_per_expert |-> tpe]

\* Mutant of IndicesAndBins: the bins are the counts, not their running sum.
IndicesAndBinsNoCumsum(top_expert, num_experts) ==
  LET tpe == Histogram(top_expert, num_experts)
  IN [indices |-> SortIndices(top_expert, SortEndBit(num_experts)),
      bin_ids |-> SortValues(top_expert, SortEndBit(num_experts)),
      bins |-> tpe,
      tokens_per_expert |-> tpe]

\* MoE.indices_and_bins
IndicesAndBins(top_expert, num_experts) ==
  LET tpe == Histogram(top_expert, num_experts)
  IN [indices |-> SortIndices(top_expert, SortEndBit(num_experts)),
      bin_ids |-> SortValues(top_expert, SortEndBit(num_experts)),
      bins |-> InclusiveCumsum(tpe),
      tokens_per_expert |-> tpe]

\* Mutant of ResolveCapacity: the configured capacity is ignored.
ResolveCapacityDynamic(expert_capacity, counts) == MaxSeq(counts)

\* Mutant of ResolveCapacity: the smallest count instead of the largest.
ResolveCapacityMin(expert_capacity, counts) ==
  IF expert_capacity = 0 THEN -MaxSeq([i \in 1..Len(counts) |-> -counts[i]])
  ELSE expert_capacity

\* The capacity of one call: the configured one, or when that is 0 the
\* largest of the given per-expert counts.
ResolveCapacity(expert_capacity, counts) ==
  IF expert_capacity = 0 THEN MaxSeq(counts) ELSE expert_capacity

\* permute_and_compute: x = ops.binned_gather(x, indices, bins, capacity)
PcGather(x, indices, bins, expert_capacity) ==
  BinnedGather(x, indices, bins, expert_capacity)

\* permute_and_compute: return ops.binned_scatter(x, indices, bins)
PcScatter(y, indices, bins) == BinnedScatter(y, indices, bins)

\* Mutant of PermuteAndCompute: the capacity does not limit the gather.
PermuteAndComputeNoLimit(w, x, indices, bins, expert_capacity) ==
  PcScatter(Compute(w, PcGather(x, indices, bins, Len(indices))),
            indices, bins)

\* MoE.permute_and_compute
PermuteAndCompute(w, x, indices, bins, expert_capacity) ==
  PcScatter(Compute(w, PcGather(x, indices, bins, expert_capacity)),
            indices, bins)

\* MoE.forward_once: (output rows, tokens_per_expert)
ForwardOnce(w, expert_capacity, x, top_expert) ==
  LET ib == IndicesAndBins(top_expert, NumExperts)
      cap == ResolveCapacity(expert_capacity, ib.tokens_per_expert)
  IN [x |-> PermuteAndCompute(w, x, ib.indices, ib.bins, cap),
      tokens_per_expert |-> ib.tokens_per_expert]

\* The token batch of device d with n rows: distinct non-zero rows.
TokenBatch(d, n) == [t \in 1..n |-> (d - 1) * (MaxTokens + 1) + t]

\* ------------------------------------------------------------------------
\* Collectives
\* ------------------------------------------------------------------------

\* tensor.view(world_size, -1): a flat vector as world_size equal rows.
View2D(v) ==
  LET n == Len(v) \div WorldSize
  IN [j \in 1..WorldSize |-> SubSeq(v, (j - 1) * n + 1, j * n)]

\* torch.distributed.all_to_all_single with equal splits, once every rank
\* has issued it: rank i's output chunk j is rank j's input chunk i.
AllToAllSingle(inputs, i) ==
  Flatten([j \in 1..WorldSize |-> View2D(inputs[j])[i]])

\* all_to_all(x, output_split_sizes, input_split_sizes, group), once every
\* rank has entered it: rank i receives from rank j, in ascending j, the
\* rows rank j holds for i (its chunk i under its input splits).
AllToAll(posted, out_splits, i) ==
  Flatten([j \in 1..WorldSize |->
     LET off == SumSeq(SubSeq(posted[j].splits, 1, i - 1))
     IN [r \in 1..out_splits[j] |->
           IF r <= posted[j].splits[i] /\ off + r <= Len(posted[j].x)
           THEN posted[j].x[off + r] ELSE 0]])

\* ------------------------------------------------------------------------
\* Parallel path: the pieces of parallel_forward_once
\* ------------------------------------------------------------------------

\* send_counts / recv_counts: the row sums of a [world_size, -1] view.
RowSums(v) == [j \in 1..WorldSize |-> SumSeq(View2D(v)[j])]

\* x.sum(dim=0) of a [world_size, num_experts_per_rank] view.
ColSums(v) ==
  [e \in 1..(Len(v) \div WorldSize) |->
     SumSeq([j \in 1..WorldSize |-> View2D(v)[j][e]])]

\* torch.remainder(torch.arange(num_experts), num_experts_per_rank)
LocalExpertIds == [g \in 1..NumExperts |-> (g - 1) % ExpertsPerRank]

\* Mutant of ParallelTopExpert: the global expert ids are replicated.
ParallelTopExpertGlobal(ptpe, tokens_received) ==
  Replicate([g \in 1..NumExperts |-> g - 1], InclusiveCumsum(ptpe),
            tokens_received)

\* parallel_top_expert: the local expert id of every received row.
ParallelTopExpert(ptpe, tokens_received) ==
  Replicate(LocalExpertIds, InclusiveCumsum(ptpe), tokens_received)

\* Mutant of SendCounts: the sum runs over the wrong dimension.
SendCountsDim0(tpe) == ColSums(tpe)

\* send_counts = tokens_per_expert.view(world_size, -1).sum(dim=-1)
SendCounts(tpe) == RowSums(tpe)

\* Mutant of RecvCounts: the sum runs over the wrong dimension.
RecvCountsDim0(ptpe) == ColSums(ptpe)

\* recv_counts = parallel_tokens_per_expert.view(world_size, -1).sum(dim=-1)
RecvCounts(ptpe) == RowSums(ptpe)

\* The split sizes of the bulk exchange: all_to_all(x, recv_counts,
\* send_counts, group), of a device with locals l.
BulkArgs(l) == [out |-> l.recv_counts, in |-> l.send_counts]

\* Mutant of ReverseArgs: the counts are not swapped.
ReverseArgsUnswapped(l) == [out |-> l.recv_counts, in |-> l.send_counts]

\* The split sizes of the reverse exchange: all_to_all(parallel_x,
\* send_counts, recv_counts, group).
ReverseArgs(l) == [out |-> l.send_counts, in |-> l.recv_counts]

\* Mutant of CollectiveMode: every collective is issued non-blocking.
CollectiveModeAllAsync(stage) == "async"

\* How a collective is called: the count exchange with async_op=True and
\* a handle that is waited on, the two all_to_all calls as plain calls
\* whose result is used at once.
CollectiveMode(stage) ==
  IF stage = "count_exchange_issue" THEN "async" ELSE "blocking"

\* Mutant of Stages: the count exchange is waited on before the gather.
StagesWaitFirst ==
  <<"indices_and_bins", "count_exchange_issue", "count_exchange_wait",
    "padded_gather", "derive_counts", "bulk_exchange",
    "permute_and_compute", "reverse_exchange", "padded_scatter">>

\* The stages of one call, in program order.
Stages ==
  <<"indices_and_bins", "count_exchange_issue", "padded_gather",
    "count_exchange_wait", "derive_counts", "bulk_exchange",
    "permute_and_compute", "reverse_exchange", "padded_scatter">>

\* The number of stages a device has completed when `stage` may run.
Before(stage) == (CHOOSE k \in 1..Len(Stages) : Stages[k] = stage) - 1

VARIABLES
  cfg,     \* the module's configuration: expert_model_parallelism (emp),
           \* self.expert_capacity, the expert weights being the identity
  sd,      \* forward_once on one device: its position and its locals
  dev,     \* parallel_forward_once: every device's position and locals
  tpeNet,  \* count exchange: the tokens_per_expert every rank has issued
  fwdNet,  \* bulk exchange: the rows and input splits every rank entered with
  revNet,  \* reverse exchange: the same for the way back
  fw,      \* MoE.forward: its position and its locals
  acc,     \* _LOAD_BALANCING_LOSS, the process-wide list
  since,   \* history: the routing of every forward call since the last clear
  ncalls,  \* history: the number of forward calls made
  held     \* what the callers of get_load_balancing_loss got, in call order

vars == <<cfg, sd, dev, tpeNet, fwdNet, revNet, fw, acc, since, ncalls, held>>

fwdVars == <<fw, acc, since, ncalls, held>>

FwIdle == [pc |-> "idle"]

\* The configurations: either path with a fixed or the dynamic capacity;
\* the experts are taken as the identity on the single-device path only.
CfgSet ==
  [emp : {FALSE}, expert_capacity : 0..MaxCap, idc : BOOLEAN, top_k : {1}]
    \cup [emp : {TRUE}, expert_capacity : 0..MaxParCap, idc : {FALSE},
          top_k : {1}]

SdIdle == [pc |-> "idle"]

None == [posted |-> FALSE, seq |-> 0]

\* Mutant of DevStart: the counts of an earlier call are still there.
DevStartStale(d, top_expert) ==
  [pc |-> 0,
   top_expert |-> top_expert,
   x |-> TokenBatch(d, Len(top_expert)),
   indices |-> <<>>, bin_ids |-> <<>>, bins |-> <<>>,
   tokens_per_expert |-> <<>>,
   parallel_tokens_per_expert |-> <<>>,
   send_counts |-> [j \in Devices |-> 0],
   recv_counts |-> [j \in Devices |-> 0], tokens_received |-> 0,
   parallel_top_expert |-> <<>>,
   parallel_indices |-> <<>>, parallel_bin_ids |-> <<>>,
   parallel_bins |-> <<>>,
   expert_capacity |-> 0,
   parallel_x |-> <<>>,
   entered |-> FALSE,
   log |-> <<>>, issued |-> 0, waited |-> 0, blocking |-> 0,
   colls |-> <<>>]

\* A device's locals before the call assigns them; colls is the rank's
\* history in the group: the collectives it has issued so far, in order.
DevStart(d, top_expert) ==
  [pc |-> 0,
   top_expert |-> top_expert,
   x |-> TokenBatch(d, Len(top_expert)),
   indices |-> <<>>, bin_ids |-> <<>>, bins |-> <<>>,
   tokens_per_expert |-> <<>>,
   parallel_tokens_per_expert |-> <<>>,
   send_counts |-> <<>>, recv_counts |-> <<>>, tokens_received |-> 0,
   parallel_top_expert |-> <<>>,
   parallel_indices |-> <<>>, parallel_bin_ids |-> <<>>,
   parallel_bins |-> <<>>,
   expert_capacity |-> 0,
   parallel_x |-> <<>>,
   entered |-> FALSE,
   log |-> <<>>, issued |-> 0, waited |-> 0, blocking |-> 0,
   colls |-> <<>>]

DevIdle == [pc |-> -1]

\* The module is constructed for one of the two paths (forward_fn), and the
\* selected function is entered with a batch and its top-1 experts: on one
\* device, or on every device of the data-parallel group.
Init ==
  /\ cfg \in CfgSet
  /\ fw = FwIdle /\ acc = <<>> /\ since = <<>> /\ ncalls = 0 /\ held = <<>>
  /\ tpeNet = [d \in Devices |-> None]
  /\ fwdNet = [d \in Devices |-> None]
  /\ revNet = [d \in Devices |-> None]
  /\ IF cfg.emp
     THEN /\ sd = SdIdle
          /\ \E tops \in [Devices -> SeqsUpTo(ExpertIds, MaxParTokens)] :
               dev = [d \in Devices |-> DevStart(d, tops[d])]
     ELSE /\ dev = [d \in Devices |-> DevIdle]
          /\ \E top_expert \in SeqsUpTo(ExpertIds, MaxTokens) :
               sd = [pc |-> "start",
                     x |-> TokenBatch(1, Len(top_expert)),
                     top_expert |-> top_expert]

parVars == <<dev, tpeNet, fwdNet, revNet>>

\* self.indices_and_bins(top_expert)
SdIndicesAndBins ==
  /\ sd.pc = "start"
  /\ LET ib == IndicesAndBins(sd.top_expert, NumExperts)
     IN sd' = [pc |-> "binned", x |-> sd.x, top_expert |-> sd.top_expert,
               indices |-> ib.indices, bin_ids |-> ib.bin_ids,
               bins |-> ib.bins, tokens_per_expert |-> ib.tokens_per_expert]
  /\ UNCHANGED <<cfg, parVars, fwdVars>>

\* expert_capacity = self.expert_capacity, or max(tokens_per_expert) if 0
SdResolve ==
  /\ sd.pc = "binned"
  /\ sd' = [pc |-> "resolved", x |-> sd.x, top_expert |-> sd.top_expert,
            indices |-> sd.indices, bin_ids |-> sd.bin_ids,
            bins |-> sd.bins, tokens_per_expert |-> sd.tokens_per_expert,
            expert_capacity |->
              ResolveCapacity(cfg.expert_capacity, sd.tokens_per_expert)]
  /\ UNCHANGED <<cfg, parVars, fwdVars>>

\* permute_and_compute: the binned gather
SdGather ==
  /\ sd.pc = "resolved"
  /\ sd' = [sd EXCEPT !.pc = "gathered",
              !.x = PcGather(sd.x, sd.indices, sd.bins, sd.expert_capacity)]
  /\ UNCHANGED <<cfg, parVars, fwdVars>>

\* permute_and_compute: x = self.compute(x)
SdCompute ==
  /\ sd.pc = "gathered"
  /\ sd' = [sd EXCEPT !.pc = "computed",
              !.x = Compute(CreateExpertWeights(MasterWeights(cfg.idc), FALSE, 0),
                            sd.x)]
  /\ UNCHANGED <<cfg, parVars, fwdVars>>

\* permute_and_compute: the binned scatter; forward_once returns
SdScatter ==
  /\ sd.pc = "computed"
  /\ sd' = [sd EXCEPT !.pc = "done",
              !.x = PcScatter(sd.x, sd.indices, sd.bins)]
  /\ UNCHANGED <<cfg, parVars, fwdVars>>

\* Mutant of AllPosted: a collective completes with any collective the
\* other ranks have issued, however long ago.
AllPostedEver(net, d) == \A j \in Devices : net[j].posted

\* A collective of rank d completes once every rank of the group has
\* issued it: the collectives of a group are matched in the order of issue,
\* the n-th of one rank with the n-th of every other.
AllPosted(net, d) ==
  \A j \in Devices : net[j].posted /\ net[j].seq = net[d].seq

\* indices, bin_ids, bins, tokens_per_expert = self.indices_and_bins(...)
PfIndicesAndBins(d) ==
  /\ dev[d].pc = Before("indices_and_bins")
  /\ LET ib == IndicesAndBins(dev[d].top_expert, NumExperts)
     IN dev' = [dev EXCEPT ![d].pc = @ + 1,
                  ![d].indices = ib.indices,
                  ![d].bin_ids = ib.bin_ids,
                  ![d].bins = ib.bins,
                  ![d].tokens_per_expert = ib.tokens_per_expert,
                  ![d].log = Append(@, "indices_and_bins")]
  /\ UNCHANGED <<fwdVars, cfg, sd, tpeNet, fwdNet, revNet>>

\* tpe_handle = all_to_all_single(parallel_tokens_per_expert,
\*                                tokens_per_expert, async_op=True)
PfIssueCounts(d) ==
  /\ dev[d].pc = Before("count_exchange_issue")
  /\ tpeNet' = [tpeNet EXCEPT ![d] =
                  [posted |-> TRUE, x |-> dev[d].tokens_per_expert,
                   seq |-> Len(dev[d].colls) + 1]]
  /\ dev' = [dev EXCEPT ![d].pc = @ + 1,
               ![d].colls = Append(@, "count_exchange"),
               ![d].issued =
                  IF CollectiveMode("count_exchange_issue") = "async"
                  THEN @ + 1 ELSE @,
               ![d].blocking =
                  IF CollectiveMode("count_exchange_issue") = "async"
                  THEN @ ELSE @ + 1,
               ![d].log = Append(@, "count_exchange_issue")]
  /\ UNCHANGED <<fwdVars, cfg, sd, fwdNet, revNet>>

\* x = ops.padded_gather(x, indices, bin_ids, bins, bins)
PfPaddedGather(d) ==
  /\ dev[d].pc = Before("padded_gather")
  /\ dev' = [dev EXCEPT ![d].pc = @ + 1,
               ![d].x = PaddedGather(dev[d].x, dev[d].indices, dev[d].bin_ids,
                                     dev[d].bins, dev[d].bins),
               ![d].log = Append(@, "padded_gather")]
  /\ UNCHANGED <<fwdVars, cfg, sd, tpeNet, fwdNet, revNet>>

\* tpe_handle.wait(): returns once every rank has issued the exchange, with
\* parallel_tokens_per_expert filled.
PfWait(d) ==
  /\ dev[d].pc = Before("count_exchange_wait")
  /\ tpeNet[d].posted
  /\ AllPosted(tpeNet, d)
  /\ dev' = [dev EXCEPT ![d].pc = @ + 1,
               ![d].waited = @ + 1,
               ![d].parallel_tokens_per_expert =
                  AllToAllSingle([j \in Devices |-> tpeNet[j].x], d),
               ![d].log = Append(@, "count_exchange_wait")]
  /\ UNCHANGED <<fwdVars, cfg, sd, tpeNet, fwdNet, revNet>>

\* The rest of the no_grad block after the wait: send_counts, recv_counts,
\* tokens_received, the receiver-side sort and bins, the capacity.
PfDerive(d) ==
  /\ dev[d].pc = Before("derive_counts")
  /\ LET ptpe2 == dev[d].parallel_tokens_per_expert
         recv == RecvCounts(ptpe2)
         received == SumSeq(recv)
         pte == ParallelTopExpert(ptpe2, received)
         ptpe == ColSums(ptpe2)
     IN dev' = [dev EXCEPT ![d].pc = @ + 1,
                  ![d].send_counts = SendCounts(dev[d].tokens_per_expert),
                  ![d].recv_counts = recv,
                  ![d].tokens_received = received,
                  ![d].parallel_top_expert = pte,
                  ![d].parallel_bin_ids = SortValues(pte, SortEndBit(NumExperts)),
                  ![d].parallel_indices = SortIndices(pte, SortEndBit(NumExperts)),
                  ![d].parallel_tokens_per_expert = ptpe,
                  ![d].parallel_bins = InclusiveCumsum(ptpe),
                  ![d].expert_capacity =
                     ResolveCapacity(cfg.expert_capacity, ptpe),
                  ![d].log = Append(@, "derive_counts")]
  /\ UNCHANGED <<fwdVars, cfg, sd, tpeNet, fwdNet, revNet>>

\* parallel_x = all_to_all(x, recv_counts, send_counts, group): the call
\* is entered ...
PfBulkEnter(d) ==
  /\ dev[d].pc = Before("bulk_exchange")
  /\ ~dev[d].entered
  /\ fwdNet' = [fwdNet EXCEPT ![d] =
                  [posted |-> TRUE, x |-> dev[d].x,
                   splits |-> BulkArgs(dev[d]).in,
                   seq |-> Len(dev[d].colls) + 1]]
  /\ dev' = [dev EXCEPT ![d].entered = TRUE,
               ![d].colls = Append(@, "bulk_exchange"),
               ![d].issued =
                  IF CollectiveMode("bulk_exchange") = "async"
                  THEN @ + 1 ELSE @,
               ![d].blocking =
                  IF CollectiveMode("bulk_exchange") = "async"
                  THEN @ ELSE @ + 1]
  /\ UNCHANGED <<fwdVars, cfg, sd, tpeNet, revNet>>

\* ... and returns once every rank has entered it.
PfBulkReturn(d) ==
  /\ dev[d].pc = Before("bulk_exchange")
  /\ dev[d].entered
  /\ AllPosted(fwdNet, d)
  /\ dev' = [dev EXCEPT ![d].pc = @ + 1,
               ![d].entered = FALSE,
               ![d].parallel_x = AllToAll(fwdNet, BulkArgs(dev[d]).out, d),
               ![d].log = Append(@, "bulk_exchange")]
  /\ UNCHANGED <<fwdVars, cfg, sd, tpeNet, fwdNet, revNet>>

\* parallel_x = self.permute_and_compute(parallel_x, ...,
\*     parallel_indices, ..., parallel_bins, expert_capacity)
PfPermuteAndCompute(d) ==
  /\ dev[d].pc = Before("permute_and_compute")
  /\ dev' = [dev EXCEPT ![d].pc = @ + 1,
               ![d].parallel_x =
                  PermuteAndCompute(
                    CreateExpertWeights(MasterWeights(cfg.idc), TRUE, d - 1),
                    dev[d].parallel_x, dev[d].parallel_indices,
                    dev[d].parallel_bins, dev[d].expert_capacity),
               ![d].log = Append(@, "permute_and_compute")]
  /\ UNCHANGED <<fwdVars, cfg, sd, tpeNet, fwdNet, revNet>>

\* x = all_to_all(parallel_x, send_counts, recv_counts, group): entered ...
PfReverseEnter(d) ==
  /\ dev[d].pc = Before("reverse_exchange")
  /\ ~dev[d].entered
  /\ revNet' = [revNet EXCEPT ![d] =
                  [posted |-> TRUE, x |-> dev[d].parallel_x,
                   splits |-> ReverseArgs(dev[d]).in,
                   seq |-> Len(dev[d].colls) + 1]]
  /\ dev' = [dev EXCEPT ![d].entered = TRUE,
               ![d].colls = Append(@, "reverse_exchange"),
               ![d].issued =
                  IF CollectiveMode("reverse_exchange") = "async"
                  THEN @ + 1 ELSE @,
               ![d].blocking =
                  IF CollectiveMode("reverse_exchange") = "async"
                  THEN @ ELSE @ + 1]
  /\ UNCHANGED <<fwdVars, cfg, sd, tpeNet, fwdNet>>

\* ... and returns once every rank has entered it.
PfReverseReturn(d) ==
  /\ dev[d].pc = Before("reverse_exchange")
  /\ dev[d].entered
  /\ AllPosted(revNet, d)
  /\ dev' = [dev EXCEPT ![d].pc = @ + 1,
               ![d].entered = FALSE,
               ![d].x = AllToAll(revNet, ReverseArgs(dev[d]).out, d),
               ![d].log = Append(@, "reverse_exchange")]
  /\ UNCHANGED <<fwdVars, cfg, sd, tpeNet, fwdNet, revNet>>

\* x = ops.padded_scatter(x, indices, bin_ids, bins, bins); the call
\* returns (x, tokens_per_expert.flatten()).
PfPaddedScatter(d) ==
  /\ dev[d].pc = Before("padded_scatter")
  /\ dev' = [dev EXCEPT ![d].pc = @ + 1,
               ![d].x = PaddedScatter(dev[d].x, dev[d].indices, dev[d].bin_ids,
                                      dev[d].bins, dev[d].bins),
               ![d].log = Append(@, "padded_scatter")]
  /\ UNCHANGED <<fwdVars, cfg, sd, tpeNet, fwdNet, revNet>>

Next ==
  \/ SdIndicesAndBins
  \/ SdResolve
  \/ SdGather
  \/ SdCompute
  \/ SdScatter
  \/ \E d \in Devices : PfIndicesAndBins(d)
  \/ \E d \in Devices : PfIssueCounts(d)
  \/ \E d \in Devices : PfPaddedGather(d)
  \/ \E d \in Devices : PfWait(d)
  \/ \E d \in Devices : PfDerive(d)
  \/ \E d \in Devices : PfBulkEnter(d)
  \/ \E d \in Devices : PfBulkReturn(d)
  \/ \E d \in Devices : PfPermuteAndCompute(d)
  \/ \E d \in Devices : PfReverseEnter(d)
  \/ \E d \in Devices : PfReverseReturn(d)
  \/ \E d \in Devices : PfPaddedScatter(d)

Spec == Init /\ [][Next]_vars

\* ------------------------------------------------------------------------
\* The load-balancing accumulator and MoE.forward
\* ------------------------------------------------------------------------

\* Mutant of SaveLoadBalancingLoss: the list is assigned, not appended to.
SaveReplaces(list, loss) == <<loss>>

\* save_load_balancing_loss
SaveLoadBalancingLoss(list, loss) == Append(list, loss)

\* clear_load_balancing_loss
ClearLoadBalancingLoss(list) == <<>>

\* Mutant of GetLoadBalancingLoss: a copy of the list is returned.
GetReturnsCopy(list) == [ref |-> "copy", items |-> list]

\* get_load_balancing_loss: return _LOAD_BALANCING_LOSS, a reference to
\* the one list object of the process (the name is never rebound: save
\* appends to the object and clear empties it in place).
GetLoadBalancingLoss(list) == [ref |-> "_LOAD_BALANCING_LOSS"]

\* The list a returned value denotes now.
Deref(h) == IF h.ref = "_LOAD_BALANCING_LOSS" THEN acc ELSE h.items

\* top_experts.chunk(top_k, dim=-1)[j].squeeze(): column j of a [T, k]
\* matrix (for T = 1 squeeze() gives a 0-d tensor; it is taken here as the
\* vector of one element).
Chunk(m, j) == [t \in 1..Len(m) |-> m[t][j]]

\* out * weight.view(-1, 1)
WeightRows(out, weight) == [t \in 1..Len(out) |-> out[t] * weight[t]]

RECURSIVE SumVectors(_, _)
\* Python's sum over a list of equally long tensors, of n elements each.
SumVectors(vs, n) ==
  IF vs = <<>> THEN [t \in 1..n |-> 0]
  ELSE [t \in 1..n |-> Head(vs)[t] + SumVectors(Tail(vs), n)[t]]

\* Mutant of WeightedSum: every run's output is weighted by the weights
\* of the first choice.
WeightedSumFirst(outs, expert_weights) ==
  SumVectors([j \in 1..Len(outs) |->
                WeightRows(outs[j], Chunk(expert_weights, 1))],
             Len(expert_weights))

\* sum([out * weight.view(-1, 1) for (out, weight) in zip(x, expert_weights)])
WeightedSum(outs, expert_weights) ==
  SumVectors([j \in 1..Len(outs) |->
                WeightRows(outs[j], Chunk(expert_weights, j))],
             Len(expert_weights))

\* The router's result for one token with k choices: the chosen experts
\* and their weights.  routing_scores is numerical (a softmax of learned
\* weights), so every tuple of experts is drawn, equal choices included;
\* weights are counted in halves (1 is 0.5, 2 is 1.0).
TokenRoutings(k) ==
  [e : [1..k -> ExpertIds],
   w : {[j \in 1..k |-> 1], [j \in 1..k |-> IF j = 1 THEN 2 ELSE 1]}]

\* The routing of a batch: top_experts and expert_weights, [T, k] each.
RoutingOf(toks) ==
  [top_experts |-> [t \in 1..Len(toks) |-> toks[t].e],
   expert_weights |-> [t \in 1..Len(toks) |-> toks[t].w]]

\* Any batch of at most MaxFwdTokens rows.
Routings(k) == {RoutingOf(toks) : toks \in SeqsUpTo(TokenRoutings(k), MaxFwdTokens)}

\* The batches of the calls of a longer run: two rows, each with first
\* choice 0 or 1, the next choices the following experts, weights 0.5.
FewRoutings(k) ==
  {RoutingOf(toks) :
     toks \in [1..2 -> {[e |-> [j \in 1..k |-> (e0 + j - 1) % NumExperts],
                         w |-> [j \in 1..k |-> 1]] : e0 \in {0, 1}}]}

\* The routing scores of a batch, as far as the routing shows them.
ScoresOf(r) == <<r.top_experts, r.expert_weights>>

FwdCfgSet ==
  [emp : {FALSE}, expert_capacity : 0..MaxFwdCap, idc : {FALSE},
   top_k : {1, TopK}]

\* A constructed module on the single-device path; nothing called yet.
InitForward ==
  /\ cfg \in FwdCfgSet
  /\ sd = SdIdle
  /\ dev = [d \in Devices |-> DevIdle]
  /\ tpeNet = [d \in Devices |-> None]
  /\ fwdNet = [d \in Devices |-> None]
  /\ revNet = [d \in Devices |-> None]
  /\ fw = FwIdle /\ acc = <<>> /\ since = <<>> /\ ncalls = 0 /\ held = <<>>

\* MoE.forward up to the routing: scores, expert_weights, top_experts =
\* self.routing_scores(x, self.router_weight); the routing is r.  The
\* module is one whose forward_fn is forward_once.
FwBegin(r) ==
  /\ ~cfg.emp
  /\ fw.pc = "idle"
  /\ fw' = [pc |-> "routed",
            x |-> TokenBatch(1, Len(r.top_experts)),
            scores |-> ScoresOf(r),
            top_experts |-> r.top_experts,
            expert_weights |-> r.expert_weights,
            outs |-> <<>>, tpes |-> <<>>, runs |-> 0]
  /\ since' = Append(since, r)
  /\ ncalls' = ncalls + 1
  /\ UNCHANGED <<cfg, sd, parVars, acc, held>>

\* The only call of a run, with any batch.
FwBeginOnly ==
  /\ ncalls = 0
  /\ \E r \in Routings(cfg.top_k) : FwBegin(r)

\* One of the calls of a longer run.
FwBeginNext ==
  /\ ncalls < MaxCalls
  /\ \E r \in FewRoutings(cfg.top_k) : FwBegin(r)

\* One run of self.forward_fn: the only one for top_k == 1, the next
\* element of the list comprehension over the chunks otherwise.
FwRun ==
  /\ fw.pc = "routed"
  /\ Len(fw.outs) < cfg.top_k
  /\ LET res == ForwardOnce(
                  CreateExpertWeights(MasterWeights(cfg.idc), FALSE, 0),
                  cfg.expert_capacity, fw.x,
                  Chunk(fw.top_experts, Len(fw.outs) + 1))
     IN fw' = [fw EXCEPT !.outs = Append(@, res.x),
                 !.tpes = Append(@, res.tokens_per_expert),
                 !.runs = @ + 1]
  /\ UNCHANGED <<cfg, sd, parVars, acc, since, ncalls, held>>

\* The rest of MoE.forward: the outputs weighted (and for top_k > 1
\* summed, like the counts), the entry saved, the output returned.
FwFinish ==
  /\ fw.pc = "routed"
  /\ Len(fw.outs) = cfg.top_k
  /\ LET out == IF cfg.top_k = 1
                THEN WeightRows(fw.outs[1], Chunk(fw.expert_weights, 1))
                ELSE WeightedSum(fw.outs, fw.expert_weights)
         tpe == IF cfg.top_k = 1 THEN fw.tpes[1]
                ELSE SumVectors(fw.tpes, NumExperts)
     IN /\ fw' = [pc |-> "returned", x |-> fw.x, scores |-> fw.scores,
                  top_experts |-> fw.top_experts,
                  expert_weights |-> fw.expert_weights,
                  runs |-> fw.runs, out |-> out, tokens_per_expert |-> tpe]
        /\ acc' = SaveLoadBalancingLoss(acc, <<tpe, fw.scores>>)
  /\ UNCHANGED <<cfg, sd, parVars, since, ncalls, held>>

\* The caller has the output; the call's locals are gone.
FwReturn ==
  /\ fw.pc = "returned"
  /\ fw' = FwIdle
  /\ UNCHANGED <<cfg, sd, parVars, acc, since, ncalls, held>>

\* clear_load_balancing_loss(), between forward calls
Clear ==
  /\ fw.pc = "idle"
  /\ acc' = ClearLoadBalancingLoss(acc)
  /\ since' = <<>>
  /\ UNCHANGED <<cfg, sd, parVars, fw, ncalls, held>>

\* A caller (such as batched_load_balancing_loss) calls
\* get_load_balancing_loss() between forward calls and keeps the result.
Get ==
  /\ fw.pc = "idle"
  /\ Len(held) < MaxGets
  /\ held' = Append(held, GetLoadBalancingLoss(acc))
  /\ UNCHANGED <<cfg, sd, parVars, fw, acc, since, ncalls>>

\* One call of MoE.forward with any batch.
NextForward ==
  \/ FwBeginOnly
  \/ FwRun
  \/ FwFinish

SpecForward == InitForward /\ [][NextForward]_vars

\* Any sequence of forward calls and clears.
NextLifecycle ==
  \/ FwBeginNext
  \/ FwRun
  \/ FwFinish
  \/ FwReturn
  \/ Clear

SpecLifecycle == InitForward /\ [][NextLifecycle]_vars

\* Forward calls, clears and gets in any order.
NextAccumulator ==
  \/ NextLifecycle
  \/ Get

SpecAccumulator == InitForward /\ [][NextAccumulator]_vars

\* ------------------------------------------------------------------------
\* MoE.forward on every device of the group (forward_fn is
\* parallel_forward_once)
\* ------------------------------------------------------------------------

\* Mutant of PfReturn: the counts of the rows that came back computed.
PfReturnComputed(l) ==
  [x |-> l.x,
   tokens_per_expert |->
     [e \in 1..NumExperts |->
        Cardinality({t \in 1..Len(l.top_expert) :
                       l.top_expert[t] = e - 1 /\ l.x[t] # 0})]]

\* return x, tokens_per_expert.flatten(): tokens_per_expert is the local
\* histogram, viewed as [world_size, num_experts_per_rank] since the counts
\* were derived.
PfReturn(l) ==
  [x |-> l.x, tokens_per_expert |-> Flatten(View2D(l.tokens_per_expert))]

\* The batches of one device's calls: one row with first choice 0, or two
\* rows with first choices 3 and 0; the next choices are the following
\* experts, the weights 0.5.
GroupRoutings(k) ==
  LET tok(e0) == [e |-> [j \in 1..k |-> (e0 + j - 1) % NumExperts],
                  w |-> [j \in 1..k |-> 1]]
  IN {RoutingOf(<<tok(0)>>), RoutingOf(<<tok(3), tok(0)>>)}

\* The modules of the group: the dynamic capacity or the largest fixed one.
GroupCfgSet ==
  [emp : {TRUE}, expert_capacity : {0, MaxParCap}, idc : {FALSE},
   top_k : {1, TopK}]

\* What outlives a forward call in rank d's process: the accumulator, the
\* rank's history in the group, and (history) the calls it makes (plan),
\* has made (calls) and their routings (since).
ProcessOf(l) ==
  [plan |-> l.plan, calls |-> l.calls, acc |-> l.acc, since |-> l.since,
   colls |-> l.colls]

\* The locals of MoE.forward that live across the runs of forward_fn.
ForwardOf(l) ==
  [scores |-> l.scores, top_experts |-> l.top_experts,
   expert_weights |-> l.expert_weights, outs |-> l.outs, tpes |-> l.tpes]

\* A process that has not called forward yet and will call it plan times.
GfIdle(plan) ==
  [pc |-> -1, plan |-> plan, calls |-> 0, acc |-> <<>>, since |-> <<>>,
   colls |-> <<>>, out |-> <<>>]

\* Every device of the group has constructed the same module; the training
\* loop of device d is to call forward plan[d] times.
InitGroup ==
  /\ cfg \in GroupCfgSet
  /\ sd = SdIdle
  /\ \E plan \in [Devices -> 0..MaxGroupCalls] :
       dev = [d \in Devices |-> GfIdle(plan[d])]
  /\ tpeNet = [d \in Devices |-> None]
  /\ fwdNet = [d \in Devices |-> None]
  /\ revNet = [d \in Devices |-> None]
  /\ fw = FwIdle /\ acc = <<>> /\ since = <<>> /\ ncalls = 0 /\ held = <<>>

\* MoE.forward on device d up to its first call of self.forward_fn: the
\* routing, and parallel_forward_once entered with the first choices.
GfBegin(d) ==
  /\ cfg.emp
  /\ dev[d].pc = -1
  /\ dev[d].calls < dev[d].plan
  /\ \E r \in GroupRoutings(cfg.top_k) :
       dev' = [dev EXCEPT ![d] =
                 Merge(Merge(DevStart(d, Chunk(r.top_experts, 1)),
                             [ProcessOf(dev[d]) EXCEPT !.calls = @ + 1,
                                                       !.since = Append(@, r)]),
                       [scores |-> ScoresOf(r),
                        top_experts |-> r.top_experts,
                        expert_weights |-> r.expert_weights,
                        outs |-> <<>>, tpes |-> <<>>])]
  /\ UNCHANGED <<fwdVars, cfg, sd, tpeNet, fwdNet, revNet>>

\* The list comprehension over the chunks: one run has returned and the
\* next is entered with the next choices; its locals are new.
GfNextRun(d) ==
  /\ cfg.emp
  /\ dev[d].pc = Len(Stages)
  /\ Len(dev[d].outs) + 1 < cfg.top_k
  /\ LET res == PfReturn(dev[d])
     IN dev' = [dev EXCEPT ![d] =
                  Merge(Merge(DevStart(d, Chunk(dev[d].top_experts,
                                                Len(dev[d].outs) + 2)),
                              ProcessOf(dev[d])),
                        [ForwardOf(dev[d]) EXCEPT
                           !.outs = Append(@, res.x),
                           !.tpes = Append(@, res.tokens_per_expert)])]
  /\ UNCHANGED <<fwdVars, cfg, sd, tpeNet, fwdNet, revNet>>

\* The last run has returned: the outputs are weighted (and summed, like
\* the counts), the entry is saved and forward returns; its locals and
\* those of the forward function are gone.
GfFinish(d) ==
  /\ cfg.emp
  /\ dev[d].pc = Len(Stages)
  /\ Len(dev[d].outs) + 1 = cfg.top_k
  /\ LET res == PfReturn(dev[d])
         outs == Append(dev[d].outs, res.x)
         tpes == Append(dev[d].tpes, res.tokens_per_expert)
         out == IF cfg.top_k = 1
                THEN WeightRows(outs[1], Chunk(dev[d].expert_weights, 1))
                ELSE WeightedSum(outs, dev[d].expert_weights)
         tpe == IF cfg.top_k = 1 THEN tpes[1]
                ELSE SumVectors(tpes, NumExperts)
     IN dev' = [dev EXCEPT ![d] =
                  Merge([pc |-> -1, out |-> out],
                        [ProcessOf(dev[d]) EXCEPT
                           !.acc = SaveLoadBalancingLoss(
                                     @, <<tpe, dev[d].scores>>)])]
  /\ UNCHANGED <<fwdVars, cfg, sd, tpeNet, fwdNet, revNet>>

NextGroup ==
  \/ \E d \in Devices : GfBegin(d)
  \/ \E d \in Devices : GfNextRun(d)
  \/ \E d \in Devices : GfFinish(d)
  \/ \E d \in Devices : PfIndicesAndBins(d)
  \/ \E d \in Devices : PfIssueCounts(d)
  \/ \E d \in Devices : PfPaddedGather(d)
  \/ \E d \in Devices : PfWait(d)
  \/ \E d \in Devices : PfDerive(d)
  \/ \E d \in Devices : PfBulkEnter(d)
  \/ \E d \in Devices : PfBulkReturn(d)
  \/ \E d \in Devices : PfPermuteAndCompute(d)
  \/ \E d \in Devices : PfReverseEnter(d)
  \/ \E d \in Devices : PfReverseReturn(d)
  \/ \E d \in Devices : PfPaddedScatter(d)

\* A process that can take a step takes one: a rank does not stop by
\* itself in the middle of its calls.
SpecGroup == InitGroup /\ [][NextGroup]_vars /\ WF_vars(NextGroup)

\* Forward calls one after the other, on a single device or on the group.
InitCalls == InitForward \/ InitGroup

NextCalls ==
  \/ FwBeginNext
  \/ FwRun
  \/ FwFinish
  \/ FwReturn
  \/ NextGroup

SpecCalls == InitCalls /\ [][NextCalls]_vars

\* ------------------------------------------------------------------------
\* Construction from the megatron args (MoE.__init__)
\* ------------------------------------------------------------------------

\* Mutant of Divisible: the assertion never fails.
DivisibleAlways(num_experts, world_size) == TRUE

\* create_expert_weights: assert (num_experts % world_size) == 0
Divisible(num_experts, world_size) == (num_experts % world_size) = 0

\* The args a module is constructed with: moe_num_experts, the world size,
\* expert_model_parallelism, moe_capacity_factor (0 or 1).
ArgSet ==
  [num_experts : 1..MaxArgExperts, world_size : 1..MaxArgWorld,
   emp : BOOLEAN, capacity_factor : {0, 1}]

\* __init__ is entered with the args; no attribute is set yet.
InitConstruct ==
  /\ \E a \in ArgSet :
       cfg = [pc |-> "args", num_experts |-> a.num_experts,
              world_size |-> a.world_size, emp |-> a.emp,
              capacity_factor |-> a.capacity_factor,
              num_experts_per_rank |-> 0, expert_capacity |-> 0,
              forward_fn |-> "none", error |-> "none"]
  /\ sd = SdIdle
  /\ dev = [d \in Devices |-> DevIdle]
  /\ tpeNet = [d \in Devices |-> None]
  /\ fwdNet = [d \in Devices |-> None]
  /\ revNet = [d \in Devices |-> None]
  /\ fw = FwIdle /\ acc = <<>> /\ since = <<>> /\ ncalls = 0 /\ held = <<>>

\* self.num_experts_per_rank: num_experts // world_size under expert model
\* parallelism (a floor division, no check), num_experts otherwise.
CtorExperts ==
  /\ cfg.pc = "args"
  /\ cfg' = [cfg EXCEPT !.pc = "experts",
               !.num_experts_per_rank =
                  IF cfg.emp THEN cfg.num_experts \div cfg.world_size
                  ELSE cfg.num_experts]
  /\ UNCHANGED <<sd, parVars, fwdVars>>

\* self.expert_capacity = int(capacity_factor * tokens / num_experts_per_rank):
\* the division raises when there is no expert per rank.
CtorCapacity ==
  /\ cfg.pc = "experts"
  /\ cfg' = IF cfg.num_experts_per_rank = 0
            THEN [cfg EXCEPT !.pc = "failed", !.error = "ZeroDivisionError"]
            ELSE [cfg EXCEPT !.pc = "capacity",
                    !.expert_capacity =
                       (cfg.capacity_factor * MaxTokens)
                         \div cfg.num_experts_per_rank]
  /\ UNCHANGED <<sd, parVars, fwdVars>>

\* self.w1.copy_(create_expert_weights(...)), self.w2.copy_(...): under
\* expert model parallelism the assertion on the divisibility is made.
CtorWeights ==
  /\ cfg.pc = "capacity"
  /\ cfg' = IF cfg.emp /\ ~Divisible(cfg.num_experts, cfg.world_size)
            THEN [cfg EXCEPT !.pc = "failed", !.error = "AssertionError"]
            ELSE [cfg EXCEPT !.pc = "weights"]
  /\ UNCHANGED <<sd, parVars, fwdVars>>

\* self.forward_fn = parallel_forward_once or forward_once; __init__ returns.
CtorSelect ==
  /\ cfg.pc = "weights"
  /\ cfg' = [cfg EXCEPT !.pc = "constructed",
               !.forward_fn = IF cfg.emp THEN "parallel_forward_once"
                              ELSE "forward_once"]
  /\ UNCHANGED <<sd, parVars, fwdVars>>

\* A forward call on the constructed module: neither forward nor the
\* forward functions look at the divisibility again.
CallForward ==
  /\ cfg.pc = "constructed"
  /\ ncalls < MaxCalls
  /\ ncalls' = ncalls + 1
  /\ UNCHANGED <<cfg, sd, parVars, fw, acc, since, held>>

NextConstruct ==
  \/ CtorExperts
  \/ CtorCapacity
  \/ CtorWeights
  \/ CtorSelect
  \/ CallForward

SpecConstruct == InitConstruct /\ [][NextConstruct]_vars

\* ------------------------------------------------------------------------
\* Properties
\* ------------------------------------------------------------------------

\* The number of rows of a batch that are routed to expert e.
CountOf(top, e) == Cardinality({t \in 1..Len(top) : top[t] = e})

\* The 1-based rank of row t among the rows of its expert, by row index.
RankOf(top, t) == Cardinality({u \in 1..t : top[u] = top[t]})

\* The row of expert e with rank s.
RowOfRank(top, e, s) ==
  CHOOSE t \in 1..Len(top) : top[t] = e /\ RankOf(top, t) = s

\* The largest per-expert count of a batch.
MaxCount(top) ==
  CHOOSE m \in 0..Len(top) :
    /\ \A e \in ExpertIds : CountOf(top, e) <= m
    /\ \E e \in ExpertIds : CountOf(top, e) = m

\* What expert g (a global id) makes of row v.
ExpertOut(g, v) == ExpertFn(MasterWeights(cfg.idc)[g + 1], v)

SdAt(pcs) == ~cfg.emp /\ sd.pc \in pcs

SdBatch == TokenBatch(1, Len(sd.top_expert))

\* C1: on the single-device path with the experts the identity, when the
\* capacity of the call is at least every per-expert count, the binned
\* gather holds every row of the batch exactly once and the binned scatter
\* of it is the batch itself, row for row.
C1_RoundTrip ==
  (/\ SdAt({"gathered", "computed", "done"})
   /\ cfg.idc
   /\ \A e \in ExpertIds : CountOf(sd.top_expert, e) <= sd.expert_capacity)
  => /\ sd.pc \in {"gathered", "computed"} =>
          \A t \in 1..Len(sd.top_expert) :
             Cardinality({es \in (1..NumExperts) \X (1..sd.expert_capacity) :
                            sd.x[es[1]][es[2]] = SdBatch[t]}) = 1
     /\ sd.pc = "done" => sd.x = SdBatch

\* The spec's example: 4 tokens, assignment [0,1,0,1], capacity 2.
C1_Witness ==
  /\ SdAt({"done"})
  /\ cfg.idc
  /\ cfg.expert_capacity = 2
  /\ sd.top_expert = <<0, 1, 0, 1>>
  /\ sd.x = <<1, 2, 3, 4>>

\* C2: on the single-device path with a fixed capacity C > 0, the rows of
\* expert e that reach compute are its first min(C, count(e)) rows in row
\* order, in that order, and nothing else; in the output every such row is
\* the expert's result and every other row is all-zero.
C2_CapacityTruncation ==
  (SdAt({"gathered", "done"}) /\ cfg.expert_capacity > 0)
  => LET C == cfg.expert_capacity
         top == sd.top_expert
     IN /\ sd.pc = "gathered" =>
             /\ Len(sd.x) = NumExperts
             /\ \A e \in ExpertIds :
                  /\ Len(sd.x[e + 1]) = C
                  /\ \A s \in 1..C :
                       sd.x[e + 1][s] =
                         IF s <= CountOf(top, e)
                         THEN SdBatch[RowOfRank(top, e, s)] ELSE 0
        /\ sd.pc = "done" =>
             /\ Len(sd.x) = Len(top)
             /\ \A t \in 1..Len(top) :
                  sd.x[t] = IF RankOf(top, t) <= C
                            THEN ExpertOut(top[t], SdBatch[t]) ELSE 0

\* Expert 1 gets three rows with capacity 1: rows 3 and 4 are dropped.
C2_Witness ==
  /\ SdAt({"done"})
  /\ ~cfg.idc
  /\ cfg.expert_capacity = 1
  /\ sd.top_expert = <<1, 0, 1, 1>>
  /\ sd.x[1] # 0 /\ sd.x[2] # 0 /\ sd.x[3] = 0 /\ sd.x[4] = 0

\* The number of stages: a device with pc = Done has returned.
Done == Len(Stages)

Top(d) == dev[d].top_expert

Batch(d) == TokenBatch(d, Len(Top(d)))

\* The global id of local expert e (0-based) of device j.
Global(j, e) == (j - 1) * ExpertsPerRank + e

LocalIds == 0..(ExpertsPerRank - 1)

\* The number of rows all devices together route to local expert e of j.
Received(j, e) ==
  SumSeq([i \in 1..WorldSize |-> CountOf(Top(i), Global(j, e))])

\* No device drops a row: every local expert's received count is within
\* the capacity its device resolved.
NoDrop ==
  \A j \in Devices : \A e \in LocalIds :
    Received(j, e) <= dev[j].expert_capacity

\* The padded-gathered buffer of device d: its rows in sorted order.
GatheredRef(d) == [p \in 1..Len(Top(d)) |-> Batch(d)[dev[d].indices[p]]]

IsPrefix(a, b) == Len(a) <= Len(b) /\ a = SubSeq(b, 1, Len(a))

InLog(d, stage) == \E k \in 1..Len(dev[d].log) : dev[d].log[k] = stage

\* C3: when no device drops a row, parallel_forward_once returns on every
\* device, at every local row t, the result of row t's expert on row t,
\* which is what forward_once returns for the device's batch with all the
\* experts local.
C3_ParallelEqualsSingle ==
  \A d \in Devices :
    (cfg.emp /\ dev[d].pc = Done /\ NoDrop)
    => /\ Len(dev[d].x) = Len(Top(d))
       /\ \A t \in 1..Len(Top(d)) :
            dev[d].x[t] = ExpertOut(Top(d)[t], Batch(d)[t])
       /\ dev[d].x =
            ForwardOnce(MasterWeights(cfg.idc), cfg.expert_capacity,
                        Batch(d), Top(d)).x

\* Both devices send rows to both devices and the receiver has to re-sort.
C3_Witness ==
  /\ cfg.emp /\ ~cfg.idc /\ cfg.expert_capacity = 1
  /\ \A d \in Devices : dev[d].pc = Done
  /\ NoDrop
  /\ Top(1) = <<3, 0>> /\ Top(2) = <<2, 1>>
  /\ dev[2].parallel_indices = <<2, 1>>
  /\ \A d \in Devices : \A t \in 1..2 : dev[d].x[t] # 0

Derived(d) == cfg.emp /\ dev[d].pc > Before("derive_counts")

\* C4: once two devices i and j have derived their counts, send_counts[j]
\* on i equals recv_counts[i] on j; once all have, the rows sent over all
\* devices are as many as the rows received over all devices.
C4_ExchangeConservation ==
  /\ \A i \in Devices : \A j \in Devices :
       (Derived(i) /\ Derived(j))
       => /\ Len(dev[i].send_counts) = WorldSize
          /\ Len(dev[j].recv_counts) = WorldSize
          /\ dev[i].send_counts[j] = dev[j].recv_counts[i]
  /\ (\A i \in Devices : Derived(i))
     => SumSeq([i \in 1..WorldSize |-> SumSeq(dev[i].send_counts)])
          = SumSeq([i \in 1..WorldSize |-> SumSeq(dev[i].recv_counts)])

\* Every row goes to device 1: it sends 2 rows and receives 4.
C4_Witness ==
  /\ \A i \in Devices : Derived(i)
  /\ SumSeq(dev[1].send_counts) = 2
  /\ SumSeq(dev[1].recv_counts) = 4
  /\ dev[2].send_counts = <<2, 0>>
  /\ dev[2].recv_counts = <<0, 0>>

\* C5: after the reverse exchange device d holds sum(send_counts) = T rows
\* again, and the row at position p is what came of the row it held at
\* position p of its padded-gathered buffer: the result of that row's
\* expert, or the zero row if the row was dropped on the way; nothing is
\* dropped when every capacity suffices.
C5_ReverseInverts ==
  \A d \in Devices :
    cfg.emp =>
      /\ (dev[d].pc \in Before("count_exchange_wait")..Before("reverse_exchange"))
         => dev[d].x = GatheredRef(d)
      /\ dev[d].pc = Before("padded_scatter")
         => /\ Len(dev[d].x) = Len(Top(d))
            /\ SumSeq(dev[d].send_counts) = Len(Top(d))
            /\ LET nodrop == NoDrop
                   ref == GatheredRef(d)
               IN \A p \in 1..Len(Top(d)) :
                    LET r == ExpertOut(Top(d)[dev[d].indices[p]], ref[p])
                    IN IF nodrop THEN dev[d].x[p] = r
                       ELSE dev[d].x[p] \in {0, r}

\* Device 1 gets its two rows back, one from each device, in the gathered
\* order, which is not the batch's order.
C5_Witness ==
  /\ cfg.emp /\ NoDrop
  /\ dev[1].pc = Before("padded_scatter")
  /\ Top(1) = <<3, 0>>
  /\ dev[1].send_counts = <<1, 1>>
  /\ dev[1].indices = <<2, 1>>
  /\ dev[1].x = <<ExpertOut(0, 2), ExpertOut(3, 1)>>

\* The largest number of rows a local expert of device d receives.
MaxReceived(d) ==
  CHOOSE m \in 0..(WorldSize * MaxParTokens) :
    /\ \A e \in LocalIds : Received(d, e) <= m
    /\ \E e \in LocalIds : Received(d, e) = m

\* C6: with expert_capacity configured as 0, forward_once resolves the
\* capacity to the largest per-expert count of the batch and
\* parallel_forward_once to the largest number of rows one of the device's
\* local experts receives from all devices; every row of the output is
\* then its expert's result, none is dropped.
C6_ZeroCapacity ==
  /\ (SdAt({"resolved", "gathered", "computed", "done"}) /\ cfg.expert_capacity = 0)
     => /\ sd.expert_capacity = MaxCount(sd.top_expert)
        /\ sd.pc = "done" =>
             \A t \in 1..Len(sd.top_expert) :
               sd.x[t] = ExpertOut(sd.top_expert[t], SdBatch[t])
  /\ \A d \in Devices :
       (Derived(d) /\ cfg.expert_capacity = 0)
       => /\ dev[d].expert_capacity = MaxReceived(d)
          /\ dev[d].pc = Done =>
               \A t \in 1..Len(Top(d)) :
                 dev[d].x[t] = ExpertOut(Top(d)[t], Batch(d)[t])

\* The spec's example on device 1: counts [3, 1], capacity resolved to 3.
C6_Witness ==
  /\ cfg.emp /\ cfg.expert_capacity = 0 /\ ~cfg.idc
  /\ \A d \in Devices : dev[d].pc = Done
  /\ Top(1) = <<0, 0>> /\ Top(2) = <<0, 1>>
  /\ dev[1].parallel_tokens_per_expert = <<3, 1>>
  /\ dev[1].expert_capacity = 3
  /\ \A d \in Devices : \A t \in 1..2 : dev[d].x[t] # 0

\* C8: on every device the stages run in program order: the count exchange
\* is issued, then the padded gather runs, then the exchange is waited on,
\* then the counts are derived, then the bulk exchange, the local
\* permute-and-compute, the reverse exchange and the padded scatter; the
\* counts exist and the bulk exchange is entered only after the wait.
C8_StageOrder ==
  \A d \in Devices :
    cfg.emp =>
      /\ IsPrefix(dev[d].log,
           <<"indices_and_bins", "count_exchange_issue", "padded_gather",
             "count_exchange_wait", "derive_counts", "bulk_exchange",
             "permute_and_compute", "reverse_exchange", "padded_scatter">>)
      /\ InLog(d, "padded_gather") => tpeNet[d].posted
      /\ InLog(d, "count_exchange_wait") =>
           InLog(d, "padded_gather") /\ AllPosted(tpeNet, d)
      /\ (dev[d].send_counts # <<>> \/ dev[d].recv_counts # <<>>
            \/ dev[d].parallel_tokens_per_expert # <<>>)
         => InLog(d, "count_exchange_wait")
      /\ fwdNet[d].posted => InLog(d, "count_exchange_wait")

\* Device 1 has gathered while its count exchange is still in flight.
C8_Witness ==
  /\ cfg.emp
  /\ dev[1].log = <<"indices_and_bins", "count_exchange_issue", "padded_gather">>
  /\ tpeNet[1].posted /\ ~tpeNet[2].posted
  /\ Len(Top(1)) = 2 /\ dev[1].x = GatheredRef(1) /\ dev[1].x # Batch(1)

\* C9 (as amended): one call has three suspension points on collectives:
\* the count exchange, issued non-blocking and explicitly waited on, and
\* the bulk and the reverse exchange, each a plain all_to_all call for
\* which parallel_forward_once holds no handle and makes no wait.
C9_ThreeCollectives ==
  \A d \in Devices :
    cfg.emp =>
      /\ dev[d].waited <= dev[d].issued
      /\ dev[d].pc = Done =>
           /\ dev[d].issued = 1
           /\ dev[d].waited = 1
           /\ dev[d].blocking = 2
           /\ tpeNet[d].posted /\ fwdNet[d].posted /\ revNet[d].posted

C9_Witness ==
  /\ cfg.emp
  /\ \A d \in Devices :
       /\ dev[d].pc = Done
       /\ dev[d].issued + dev[d].blocking = 3
       /\ dev[d].waited = 1

\* C9 as the spec states it: a finished call has made exactly two
\* collectives, each issued non-blocking and explicitly waited on.
C9_TwoSuspensionPoints ==
  \A d \in Devices :
    (cfg.emp /\ dev[d].pc = Done)
    => /\ dev[d].issued + dev[d].blocking = 2
       /\ dev[d].blocking = 0
       /\ dev[d].waited = dev[d].issued

\* What one run of forward_once is to return at row t for the choice
\* column col: the expert's result, or the zero row if the row is beyond
\* the capacity.
ExpectedRun(col, t) ==
  IF cfg.expert_capacity = 0 \/ RankOf(col, t) <= cfg.expert_capacity
  THEN ExpertOut(col[t], fw.x[t]) ELSE 0

\* The number of rows of a [T, k] routing that choose expert e, over all
\* the k choices.
ChoiceCount(top_experts, k, e) ==
  SumSeq([j \in 1..k |-> CountOf(Chunk(top_experts, j), e)])

\* C7: for top_k = k > 1 forward runs the forward function k times, once
\* per choice column; output row t is the sum over the runs of the run's
\* row t times the weight of that choice for token t, and tokens_per_expert
\* is the sum of the runs' counts, T * k in all.  With k = 2, both choices
\* the same expert and both weights 0.5, the output is the single run's
\* output (weights are counted in halves, so twice it here).
C7_TopKCombine ==
  /\ fw.pc = "routed" => fw.runs = Len(fw.outs) /\ fw.runs <= cfg.top_k
  /\ (fw.pc = "returned" /\ cfg.top_k > 1)
     => LET k == cfg.top_k
            T == Len(fw.top_experts)
        IN /\ fw.runs = k
           /\ Len(fw.out) = T
           /\ \A t \in 1..T :
                fw.out[t] =
                  SumSeq([j \in 1..k |->
                            ExpectedRun(Chunk(fw.top_experts, j), t)
                              * fw.expert_weights[t][j]])
           /\ \A e \in ExpertIds :
                fw.tokens_per_expert[e + 1] = ChoiceCount(fw.top_experts, k, e)
           /\ SumSeq(fw.tokens_per_expert) = T * k
           /\ (/\ k = 2
               /\ \A t \in 1..T :
                    /\ fw.top_experts[t][1] = fw.top_experts[t][2]
                    /\ fw.expert_weights[t] = <<1, 1>>)
              => \A t \in 1..T :
                   fw.out[t] = 2 * ExpectedRun(Chunk(fw.top_experts, 1), t)

\* Two rows, two different choices each with weights 1.0 and 0.5.
C7_Witness ==
  /\ fw.pc = "returned" /\ cfg.top_k = 2 /\ cfg.expert_capacity = 0
  /\ fw.top_experts = <<<<2, 0>>, <<2, 3>>>>
  /\ fw.expert_weights = <<<<2, 1>>, <<2, 1>>>>
  /\ fw.runs = 2
  /\ fw.tokens_per_expert = <<1, 0, 2, 1>>
  /\ fw.out[1] = 2 * ExpertOut(2, 1) + ExpertOut(0, 1)
  /\ fw.out[2] = 2 * ExpertOut(2, 2) + ExpertOut(3, 2)

\* The entry a forward call with routing r is to add.
EntryOf(r) ==
  <<[e \in 1..NumExperts |->
       ChoiceCount(r.top_experts, cfg.top_k, e - 1)],
    ScoresOf(r)>>

\* C10: between calls the accumulator holds one (tokens_per_expert, scores)
\* entry per forward call made since the last clear, in call order, for
\* top_k = 1 and top_k > 1 alike, and none after a clear; inside a call
\* the call's entry is missing until the call saves it.
C10_AccumulatorLifecycle ==
  /\ fw.pc \in {"idle", "returned"} =>
       acc = [i \in 1..Len(since) |-> EntryOf(since[i])]
  /\ fw.pc = "routed" =>
       acc = [i \in 1..(Len(since) - 1) |-> EntryOf(since[i])]

\* Three calls with two choices per row and a clear after the first.
C10_Witness ==
  /\ fw.pc = "idle" /\ cfg.top_k = TopK
  /\ ncalls = 3 /\ Len(since) = 2
  /\ Len(acc) = 2 /\ acc[1] # acc[2]
  /\ SumSeq(acc[1][1]) = 2 * TopK

\* tokens_per_expert and bins are the histogram of the assignment `top` and
\* its running sum.
BinsConsistent(top, tpe, bins) ==
  /\ Len(tpe) = NumExperts
  /\ \A e \in ExpertIds : tpe[e + 1] = CountOf(top, e) /\ tpe[e + 1] >= 0
  /\ SumSeq(tpe) = Len(top)
  /\ Len(bins) = NumExperts
  /\ \A e \in ExpertIds :
       bins[e + 1] = SumSeq([g \in 1..(e + 1) |-> tpe[g]])
  /\ \A e \in 1..(NumExperts - 1) : bins[e] <= bins[e + 1]
  /\ bins[NumExperts] = Len(top)

\* C13: for every assignment of T tokens over the E experts,
\* indices_and_bins returns tokens_per_expert of length E with the number
\* of tokens of every expert (zero allowed) and sum T, and bins with
\* bins[e] the sum of tokens_per_expert[0..e]: non-decreasing, the last T.
C13_HistogramBins ==
  /\ SdAt({"binned"}) =>
       BinsConsistent(sd.top_expert, sd.tokens_per_expert, sd.bins)
  /\ \A d \in Devices :
       (cfg.emp /\ dev[d].pc = Before("count_exchange_issue"))
       => BinsConsistent(Top(d), dev[d].tokens_per_expert, dev[d].bins)

\* Experts 2 and 3 get no token; expert 1 gets three.
C13_Witness ==
  /\ SdAt({"binned"})
  /\ sd.top_expert = <<1, 0, 1, 1>>
  /\ sd.tokens_per_expert = <<1, 3, 0, 0>>
  /\ sd.bins = <<1, 4, 4, 4>>

\* indices is a stable sorting permutation of the keys and sorted_ids the
\* keys in that order.
SortValid(keys, indices, sorted_ids) ==
  LET n == Len(keys)
  IN /\ Len(indices) = n /\ Len(sorted_ids) = n
     /\ \A t \in 1..n : Cardinality({p \in 1..n : indices[p] = t}) = 1
     /\ \A p \in 1..n : indices[p] \in 1..n /\ sorted_ids[p] = keys[indices[p]]
     /\ \A p \in 1..(n - 1) :
          \/ sorted_ids[p] < sorted_ids[p + 1]
          \/ sorted_ids[p] = sorted_ids[p + 1] /\ indices[p] < indices[p + 1]

\* C14: the indices the sort in indices_and_bins returns are a permutation
\* of the T rows, the sorted expert ids are non-decreasing and rows of the
\* same expert keep their original order; the same holds on the receiving
\* device for parallel_indices over the tokens_received rows.
C14_PermutationValid ==
  /\ SdAt({"binned"}) => SortValid(sd.top_expert, sd.indices, sd.bin_ids)
  /\ \A d \in Devices :
       cfg.emp =>
         /\ dev[d].pc = Before("count_exchange_issue")
            => SortValid(Top(d), dev[d].indices, dev[d].bin_ids)
         /\ dev[d].pc = Before("bulk_exchange")
            => /\ Len(dev[d].parallel_top_expert) = dev[d].tokens_received
               /\ SortValid(dev[d].parallel_top_expert,
                            dev[d].parallel_indices, dev[d].parallel_bin_ids)

\* Device 2 receives the local experts 0, 1 from each device and has to
\* interleave the two chunks; its own rows were sorted before they left.
C14_Witness ==
  /\ cfg.emp /\ dev[2].pc = Before("bulk_exchange")
  /\ Top(1) = <<2, 3>> /\ Top(2) = <<3, 2>>
  /\ dev[2].indices = <<2, 1>>
  /\ dev[2].parallel_top_expert = <<0, 1, 0, 1>>
  /\ dev[2].parallel_indices = <<1, 3, 2, 4>>

\* The device a row value comes from and its row index there (TokenBatch).
SrcDev(v) == ((v - 1) \div (MaxTokens + 1)) + 1

SrcRow(v) == v - (SrcDev(v) - 1) * (MaxTokens + 1)

\* The device that owns global expert g, and g's local id there.
OwnerOf(g) == (g \div ExpertsPerRank) + 1

LocalOf(g) == g % ExpertsPerRank

\* The number of rows device i routes to the experts of device j.
RoutedTo(i, j) ==
  SumSeq([e \in 1..ExpertsPerRank |-> CountOf(Top(i), Global(j, e - 1))])

\* C16: after the count exchange send_counts and recv_counts have one
\* entry per device; send_counts[j] is the number of local rows routed to
\* the experts of device j's shard, T in all; recv_counts[j] is the number
\* of rows device j routes to this device's experts; in the padded-gathered
\* buffer the rows for device j are contiguous, in ascending j.
C16_CountDerivation ==
  \A d \in Devices :
    (cfg.emp /\ dev[d].pc = Before("bulk_exchange"))
    => /\ Len(dev[d].send_counts) = WorldSize
       /\ Len(dev[d].recv_counts) = WorldSize
       /\ \A j \in Devices :
            /\ dev[d].send_counts[j] = RoutedTo(d, j)
            /\ dev[d].recv_counts[j] = RoutedTo(j, d)
       /\ SumSeq(dev[d].send_counts) = Len(Top(d))
       /\ Len(dev[d].x) = Len(Top(d))
       /\ \A p \in 1..Len(dev[d].x) :
            LET j == OwnerOf(Top(d)[SrcRow(dev[d].x[p])])
                off == SumSeq(SubSeq(dev[d].send_counts, 1, j - 1))
            IN /\ SrcDev(dev[d].x[p]) = d
               /\ off < p /\ p <= off + dev[d].send_counts[j]

\* Device 1 keeps one row and sends one; the row it sends comes first in
\* the batch and last in the buffer.
C16_Witness ==
  /\ cfg.emp /\ dev[1].pc = Before("bulk_exchange")
  /\ Top(1) = <<2, 1>> /\ Top(2) = <<0, 0>>
  /\ dev[1].send_counts = <<1, 1>>
  /\ dev[1].recv_counts = <<1, 2>>
  /\ dev[1].x = <<Batch(1)[2], Batch(1)[1]>>

\* The local expert the sender routed the received row v to.
RoutedLocal(v) == LocalOf(Top(SrcDev(v))[SrcRow(v)])

\* C17: the label parallel_forward_once constructs for every received row
\* is the local expert index the sender routed the row to, whatever the
\* per-source per-expert counts (zeros included); after the re-sort the
\* received rows are grouped by local expert, parallel_bins[e] is the
\* number of received rows of the local experts up to e, and the last bin
\* is tokens_received = sum(recv_counts).
C17_ReceiverRegrouping ==
  \A d \in Devices :
    (cfg.emp /\ dev[d].pc = Before("permute_and_compute"))
    => LET n == dev[d].tokens_received
           px == dev[d].parallel_x
       IN /\ n = SumSeq(dev[d].recv_counts)
          /\ Len(px) = n
          /\ Len(dev[d].parallel_top_expert) = n
          /\ \A p \in 1..n :
               /\ px[p] # 0
               /\ dev[d].parallel_top_expert[p] = RoutedLocal(px[p])
               /\ dev[d].parallel_bin_ids[p] =
                    RoutedLocal(px[dev[d].parallel_indices[p]])
          /\ \A p \in 1..(n - 1) :
               dev[d].parallel_bin_ids[p] <= dev[d].parallel_bin_ids[p + 1]
          /\ Len(dev[d].parallel_bins) = ExpertsPerRank
          /\ \A e \in LocalIds :
               dev[d].parallel_bins[e + 1] =
                 Cardinality({p \in 1..n : RoutedLocal(px[p]) <= e})
          /\ dev[d].parallel_bins[ExpertsPerRank] = n

\* Device 1 receives nothing for local expert 0 from itself and nothing
\* for local expert 1 from device 2.
C17_Witness ==
  /\ cfg.emp /\ dev[1].pc = Before("permute_and_compute")
  /\ Top(1) = <<1, 3>> /\ Top(2) = <<0, 0>>
  /\ dev[1].parallel_top_expert = <<1, 0, 0>>
  /\ dev[1].parallel_indices = <<2, 3, 1>>
  /\ dev[1].parallel_bins = <<2, 3>>
  /\ dev[1].parallel_x = <<Batch(1)[1], Batch(2)[1], Batch(2)[2]>>

\* The 1-based place of row t of device i among the rows its expert
\* receives: the rows of lower source ranks first, then the sender's order.
ReceiverRank(i, t) ==
  SumSeq([j \in 1..(i - 1) |-> CountOf(Top(j), Top(i)[t])])
    + RankOf(Top(i), t)

\* C15: with a fixed capacity C > 0 the limit applies to every local expert
\* over the rows received from all devices together: the rows computed are
\* the first C in the receiver's order (lower source rank first, then the
\* sender's sorted order), and so exactly min(C, received) of them; a
\* dropped row returns as the all-zero row at its own row index on its
\* origin device, every other row as its expert's result at its row index.
C15_ParallelTruncation ==
  \A d \in Devices :
    (cfg.emp /\ cfg.expert_capacity > 0 /\ dev[d].pc = Done)
    => /\ Len(dev[d].x) = Len(Top(d))
       /\ \A t \in 1..Len(Top(d)) :
            dev[d].x[t] =
              IF ReceiverRank(d, t) <= cfg.expert_capacity
              THEN ExpertOut(Top(d)[t], Batch(d)[t]) ELSE 0
       /\ (\A i \in Devices : dev[i].pc = Done)
          => \A e \in LocalIds :
               LET C == cfg.expert_capacity
                   got == Received(d, e)
                   computed ==
                     SumSeq([i \in 1..WorldSize |->
                       Cardinality({t \in 1..Len(Top(i)) :
                         Top(i)[t] = Global(d, e) /\ dev[i].x[t] # 0})])
               IN computed = IF got <= C THEN got ELSE C

\* Expert 0 receives three rows with capacity 1: device 1's first row is
\* computed, its second and device 2's are dropped; device 2's other row,
\* for expert 3, is computed.
C15_Witness ==
  /\ cfg.emp /\ cfg.expert_capacity = 1
  /\ \A d \in Devices : dev[d].pc = Done
  /\ Top(1) = <<0, 0>> /\ Top(2) = <<3, 0>>
  /\ dev[1].x = <<ExpertOut(0, Batch(1)[1]), 0>>
  /\ dev[2].x = <<ExpertOut(3, Batch(2)[1]), 0>>

\* C12: a module constructed under expert model parallelism with
\* num_experts not divisible by the world size never gets past the creation
\* of its expert weights: construction ends in a fatal error, no forward
\* function is selected and no forward call runs on it; a module that is
\* constructed is never failed by a forward call.
C12_ConfigError ==
  /\ (cfg.emp /\ cfg.num_experts % cfg.world_size # 0)
     => /\ cfg.pc \in {"args", "experts", "capacity", "failed"}
        /\ cfg.forward_fn = "none"
        /\ ncalls = 0
  /\ cfg.pc = "failed" =>
       /\ cfg.error \in {"AssertionError", "ZeroDivisionError"}
       /\ cfg.emp /\ cfg.num_experts % cfg.world_size # 0
  /\ ncalls > 0 => cfg.pc = "constructed" /\ cfg.error = "none"

\* 5 experts on 2 devices: 2 experts per rank, the assertion fails.
C12_Witness ==
  /\ cfg.pc = "failed" /\ cfg.error = "AssertionError"
  /\ cfg.emp /\ cfg.num_experts = 5 /\ cfg.world_size = 2
  /\ cfg.num_experts_per_rank = 2
  /\ ncalls = 0

\* C19: get_load_balancing_loss returns the live list and leaves it as it
\* is: whatever a caller got from it, at any earlier time, is at every
\* later time the accumulator's current contents (so it shows every later
\* save and is empty after a clear, and two results are always equal), and
\* the accumulator still holds every entry saved since the last clear.
C19_AccumulatorAliasing ==
  /\ \A i \in 1..Len(held) : Deref(held[i]) = acc
  /\ \A i \in 1..Len(held) : \A j \in 1..Len(held) :
       Deref(held[i]) = Deref(held[j])
  /\ fw.pc \in {"idle", "returned"} =>
       acc = [i \in 1..Len(since) |-> EntryOf(since[i])]

\* A list got when it had one entry, and again after a clear and two more
\* forward calls: both results now have those two entries.
C19_Witness ==
  /\ fw.pc = "idle" /\ Len(held) = 2
  /\ ncalls = 3 /\ Len(since) = 2
  /\ Len(Deref(held[1])) = 2
  /\ Deref(held[1])[2] = EntryOf(since[2])

\* The collectives one run of parallel_forward_once issues, in order.
RunCollectives == <<"count_exchange", "bulk_exchange", "reverse_exchange">>

\* A rank's history is run after run of the three collectives.
Disciplined(colls) ==
  \A n \in 1..Len(colls) :
    colls[n] = RunCollectives[((n - 1) % Len(RunCollectives)) + 1]

EqualPlans == \A i \in Devices : \A j \in Devices : dev[i].plan = dev[j].plan

\* The smallest number of forward calls a device of the group makes.
MinPlan ==
  CHOOSE m \in 0..MaxGroupCalls :
    /\ \A d \in Devices : dev[d].plan >= m
    /\ \E d \in Devices : dev[d].plan = m

\* Every device has returned from all its forward calls.
AllReturned ==
  \A d \in Devices :
    /\ dev[d].pc = -1
    /\ dev[d].calls = dev[d].plan
    /\ Len(dev[d].acc) = dev[d].plan
    /\ Len(dev[d].colls) = Len(RunCollectives) * cfg.top_k * dev[d].plan

\* The devices with the fewest calls have returned from them all; every
\* other device waits for the count exchange of its next call.
PeersBlocked ==
  \A d \in Devices :
    IF dev[d].plan = MinPlan
    THEN dev[d].pc = -1 /\ dev[d].calls = dev[d].plan
    ELSE /\ dev[d].calls = MinPlan + 1
         /\ dev[d].pc = Before("count_exchange_wait")
         /\ ~AllPosted(tpeNet, d)

\* How the group ends up: all calls returned when the devices make equally
\* many, the devices with more calls blocked otherwise.
Settled == IF EqualPlans THEN AllReturned ELSE PeersBlocked

\* No rank is more than one collective ahead of another, the histories
\* agree as far as they go, and a rank returns from a forward call only
\* when every rank has begun that call.
SameSequence ==
  \A i \in Devices :
    /\ Disciplined(dev[i].colls)
    /\ \A j \in Devices :
         /\ Len(dev[i].colls) <= Len(dev[j].colls) + 1
         /\ IsPrefix(dev[i].colls, dev[j].colls)
              \/ IsPrefix(dev[j].colls, dev[i].colls)
         /\ dev[i].pc = -1 => dev[i].calls <= dev[j].calls

\* C11: when every device of the group calls forward the same number of
\* times (with the same top_k), every device issues the same sequence of
\* collectives, per run the count, the bulk and the reverse exchange, and
\* every call returns on every device, whatever the devices' routings and
\* row counts; when a device makes fewer calls, every device that makes
\* more ends up waiting in a collective and waits forever: no step of any
\* device is possible any more.
C11_CollectiveDiscipline ==
  /\ []SameSequence
  /\ <>[]Settled
  /\ []((~EqualPlans /\ PeersBlocked) => ~ENABLED NextGroup)

\* Device 1 has made its only call, device 2 waits in its second: each
\* issued the six collectives of the first call (two runs), device 2 one
\* more; their batches in the first call differed in routing and size.
C11_Witness ==
  /\ cfg.emp /\ cfg.top_k = TopK
  /\ dev[1].plan = 1 /\ dev[2].plan = 2
  /\ PeersBlocked
  /\ Len(dev[1].colls) = 6 /\ Len(dev[2].colls) = 7
  /\ Len(dev[1].since[1].top_experts) # Len(dev[2].since[1].top_experts)

\* The per-expert counts of an assignment.
CountsOf(top) == [e \in 1..NumExperts |-> CountOf(top, e - 1)]

\* The entries the forward calls with the routings rs are to add.
EntriesOf(rs) == [i \in 1..Len(rs) |-> EntryOf(rs[i])]

\* C20: the tokens_per_expert that forward_once and parallel_forward_once
\* return is the histogram of the device's own assignment over all E
\* experts, summing to T, whether or not rows were dropped and whatever
\* the peers sent; the entry forward saves holds the sum of these vectors
\* over its k runs.
C20_ReportedCounts ==
  /\ fw.pc = "routed" =>
       \A j \in 1..Len(fw.tpes) :
         /\ fw.tpes[j] = CountsOf(Chunk(fw.top_experts, j))
         /\ SumSeq(fw.tpes[j]) = Len(fw.top_experts)
  /\ fw.pc \in {"idle", "returned"} => acc = EntriesOf(since)
  /\ \A d \in Devices :
       cfg.emp =>
         /\ dev[d].pc = Done =>
              /\ PfReturn(dev[d]).tokens_per_expert = CountsOf(Top(d))
              /\ Len(PfReturn(dev[d]).tokens_per_expert) = NumExperts
              /\ SumSeq(PfReturn(dev[d]).tokens_per_expert) = Len(Top(d))
         /\ dev[d].pc >= 0 =>
              \A j \in 1..Len(dev[d].tpes) :
                dev[d].tpes[j] = CountsOf(Chunk(dev[d].top_experts, j))
         /\ dev[d].pc = -1 => dev[d].acc = EntriesOf(dev[d].since)

\* The second run of device 2's second call has returned; both its rows
\* were dropped (device 1's rows filled the capacity of 1), and the counts
\* it returns still have them.
C20_Witness ==
  /\ cfg.emp /\ cfg.top_k = TopK /\ cfg.expert_capacity = 1
  /\ dev[2].pc = Done
  /\ dev[2].calls = 2 /\ Len(dev[2].acc) = 1 /\ Len(dev[2].tpes) = 1
  /\ Top(2) = <<0, 1>>
  /\ dev[2].x = <<0, 0>>
  /\ PfReturn(dev[2]).tokens_per_expert = <<1, 1, 0, 0>>

\* list is list0 with one entry appended.
OneAppended(list0, list) ==
  Len(list) = Len(list0) + 1 /\ SubSeq(list, 1, Len(list0)) = list0

\* What a step may change of what outlives a call: nothing of the module,
\* and of the accumulator nothing but one entry appended when forward
\* saves it.
FrameStep ==
  /\ cfg' = cfg
  /\ \/ acc' = acc
     \/ fw.pc = "routed" /\ fw'.pc = "returned" /\ OneAppended(acc, acc')
  /\ cfg.emp =>
       \A d \in Devices :
         \/ dev'[d].acc = dev[d].acc
         \/ /\ dev[d].pc = Done /\ dev'[d].pc = -1
            /\ OneAppended(dev[d].acc, dev'[d].acc)

\* Between calls and inside a call: one entry per finished call, the
\* forward function the one selected at construction, the locals of a call
\* new at its entry and gone at its end, and the capacity of every run the
\* configured one or, when that is 0, resolved from this run's counts.
FrameState ==
  /\ fw.pc = "idle" => Len(acc) = ncalls
  /\ fw.pc = "routed" =>
       /\ Len(acc) = ncalls - 1
       /\ \A j \in 1..Len(fw.outs) : \A t \in 1..Len(fw.top_experts) :
            fw.outs[j][t] = ExpectedRun(Chunk(fw.top_experts, j), t)
  /\ cfg.emp => fw = FwIdle /\ sd = SdIdle
  /\ ~cfg.emp => \A d \in Devices : dev[d] = DevIdle
  /\ cfg.emp =>
       \A d \in Devices :
         /\ dev[d].pc = -1 =>
              /\ Len(dev[d].acc) = dev[d].calls
              /\ DOMAIN dev[d] \cap {"send_counts", "recv_counts",
                                     "expert_capacity"} = {}
         /\ dev[d].pc >= 0 => Len(dev[d].acc) = dev[d].calls - 1
         /\ dev[d].pc \in 0..Before("derive_counts") =>
              /\ dev[d].send_counts = <<>>
              /\ dev[d].recv_counts = <<>>
         /\ (dev[d].pc = Before("bulk_exchange") /\ ~dev[d].entered) =>
              dev[d].expert_capacity =
                IF cfg.expert_capacity = 0 THEN MaxReceived(d)
                ELSE cfg.expert_capacity

\* C18: a call of MoE.forward, on either path and for any top_k, leaves
\* the module as it is (the configured expert_capacity, a 0 included, the
\* selected forward function, the experts and their weights) and changes
\* the accumulator by appending one entry; a configured capacity of 0 is
\* resolved anew in every call from that call's counts, and the send and
\* receive counts of one call are not there in the next.
C18_ForwardFrame == [][FrameStep]_vars /\ []FrameState

\* Device 1 in its second call, with the dynamic capacity: this call's
\* batch and capacity are not those of the first.
C18_Witness ==
  /\ cfg.emp /\ cfg.expert_capacity = 0
  /\ dev[1].pc = Before("bulk_exchange")
  /\ dev[1].calls = 2 /\ Len(dev[1].acc) = 1
  /\ Len(dev[1].since[1].top_experts) = 1
  /\ Len(dev[1].since[2].top_experts) = 2
  /\ dev[1].expert_capacity = 2
  /\ dev[1].send_counts # <<>>

====
